---- MODULE Spec2Model ----
(***************************************************************************)
(* Model of drivers/accessibility/braille/braille_console.c: the braille   *)
(* console core (frame encoder with its change-detection cache, the line   *)
(* buffer fed by VT_WRITE notifications, the Following/Browsing key state  *)
(* machine with its viewport, and console registration).                   *)
(*                                                                         *)
(* The source fixes WIDTH at 40.  Every definition below is written for an *)
(* arbitrary WIDTH, as the source is, and the model is explored at a       *)
(* reduced width so that all line contents can be enumerated.              *)
(***************************************************************************)
EXTENDS Integers, Sequences, FiniteSets, TLC

(* ----------------------------- bounds ---------------------------------- *)
\* display width explored (40 in the source)
WIDTH == 3
\* printable characters remembered by the history variable fed beyond WIDTH
ExtraFed == 2

(* ------------------------ program constants ---------------------------- *)
SOH == 1
STX == 2
ETX == 3
BEEP_HIGH == 880
BEEP_MED == 440
BEEP_LOW == 220
NOTIFY_OK == 1
NOTIFY_STOP == 32769
ENODEV == 19
EINVAL == 22
KT_SPEC == 1

NULL == "NULL"
KEY_INSERT == "KEY_INSERT"
KEY_LEFT == "KEY_LEFT"
KEY_RIGHT == "KEY_RIGHT"
KEY_DOWN == "KEY_DOWN"
KEY_UP == "KEY_UP"
KEY_HOME == "KEY_HOME"
KEY_PAGEUP == "KEY_PAGEUP"
KEY_PAGEDOWN == "KEY_PAGEDOWN"
KEY_A == "KEY_A"
BRAILLE_KEY == KEY_INSERT

(* ------------------ 8-bit arithmetic of the encoder -------------------- *)
RECURSIVE BitOp(_, _, _, _)
\* bitwise combination of a and b over n bits; op is "xor" or "or"
BitOp(op, a, b, n) ==
    IF n = 0 THEN 0
    ELSE LET x == a % 2
             y == b % 2
             bit == IF op = "xor" THEN (x + y) % 2
                    ELSE IF x + y > 0 THEN 1 ELSE 0
         IN  bit + 2 * BitOp(op, a \div 2, b \div 2, n - 1)

\* the 8-bit operators, tabulated once
XorTable == [a \in 0..255 |-> [b \in 0..255 |-> BitOp("xor", a, b, 8)]]
OrTable == [a \in 0..255 |-> [b \in 0..255 |-> BitOp("or", a, b, 8)]]

\* csum ^= v on an unsigned char
Xor8(a, b) == XorTable[a % 256][b % 256]
\* v |= m on an unsigned char
Or8(a, b) == OrTable[a % 256][b % 256]

(* --------------------------- frame encoder ----------------------------- *)
\* lines 99-103: the substitution of one code point
Subst(v) == IF v >= 256 THEN 63 ELSE IF v = 0 THEN 32 ELSE v

\* EmitByte without char_val |= 0x40 after the SOH
EmitByte_no_or(v) == IF v <= 5 THEN <<SOH, v>> ELSE <<v>>

\* EmitByte escaping only the control codes SOH..ENQ, not 0
EmitByte_from_SOH(v) == IF v >= 1 /\ v <= 5 THEN <<SOH, Or8(v, 64)>> ELSE <<v>>

\* lines 106-110 and 113-117: the bytes emitted for one data byte
EmitByte(v) == IF v <= 5 THEN <<SOH, Or8(v, 64)>> ELSE <<v>>

RECURSIVE EncodeLoop_csum_late(_, _, _, _)
\* EncodeLoop with csum ^= char_val moved after the escape, so that it sees v | 0x40
EncodeLoop_csum_late(buf, i, csum, data) ==
    IF i > WIDTH THEN [csum |-> csum, data |-> data]
    ELSE LET char_val == Subst(buf[i])
             escaped == IF char_val <= 5 THEN Or8(char_val, 64) ELSE char_val
         IN  EncodeLoop_csum_late(buf, i + 1, Xor8(csum, escaped),
                                  data \o EmitByte(char_val))

RECURSIVE EncodeLoop(_, _, _, _)
\* lines 98-111: the for loop, from (0-based) index i - 1 on
EncodeLoop(buf, i, csum, data) ==
    IF i > WIDTH THEN [csum |-> csum, data |-> data]
    ELSE LET char_val == Subst(buf[i])
         IN  EncodeLoop(buf, i + 1, Xor8(csum, char_val), data \o EmitByte(char_val))

\* lines 93-118: the bytes handed to braille_co->write
Frame(buf) ==
    LET r == EncodeLoop(buf, 1, Xor8(0, 62), <<STX, 62>>)
    IN  r.data \o EmitByte(r.csum) \o <<ETX>>

(* ------------------------------- state --------------------------------- *)
VARIABLES
    sound,            \* module parameter
    console_buf,      \* u16 console_buf[WIDTH], as a sequence 1..WIDTH
    console_cursor,
    vc_view_x, vc_view_y, lastvc_x, lastvc_y,
    console_show,
    console_newline,
    lastVC,
    braille_co,       \* the bound console or NULL
    last_write_buf,   \* static cache of braille_write
    kbd_notifier,     \* keyboard_notifier_block is on the keyboard chain
    vt_notifier,      \* vt_notifier_block is on the vt chain
    con_enabled,      \* per console: CON_ENABLED in console->flags
    con_index,        \* per console: console->index
    fg_console,       \* the kernel's foreground console number
    vc_cols, vc_rows, \* dimensions of the virtual consoles
    ev,               \* the last call made into the driver
    ret,              \* its return value
    out,              \* frames it handed to braille_co->write
    cues,             \* frequencies it handed to kd_mksound
    refreshed,        \* number of refresh_vc calls it made
    setup_arg,        \* options it handed to console->setup
    fed, fed_ok       \* history: the characters stored since the line was last empty

core == <<console_buf, console_cursor, vc_view_x, vc_view_y, lastvc_x, lastvc_y,
          console_show, console_newline, lastVC, last_write_buf>>
binding == <<braille_co, kbd_notifier, vt_notifier, con_enabled, con_index>>
env == <<sound, fg_console, vc_cols, vc_rows>>
obs == <<ev, ret, out, cues, refreshed, setup_arg>>
hist == <<fed, fed_ok>>
vars == <<core, binding, env, obs, hist>>

Devices == {"d1", "d2"}
VCs == {0, 1}
Blank == [i \in 1..WIDTH |-> 0]

\* the globals as the C initialisers leave them (lines 43-54, 80)
InitCore ==
    /\ console_buf = Blank
    /\ console_cursor = 0
    /\ vc_view_x = 0 /\ vc_view_y = 0 /\ lastvc_x = 0 /\ lastvc_y = 0
    /\ console_show = 1
    /\ console_newline = 1
    /\ lastVC = -1
    /\ braille_co = NULL
    /\ last_write_buf = Blank
    /\ kbd_notifier = FALSE
    /\ vt_notifier = FALSE
    /\ con_enabled = [d \in Devices |-> FALSE]
    /\ con_index = [d \in Devices |-> -1]
    /\ ev = [op |-> "init"]
    /\ ret = 0
    /\ out = <<>>
    /\ cues = <<>>
    /\ refreshed = 0
    /\ setup_arg = NULL
    /\ fed = <<>>
    /\ fed_ok = TRUE

Init ==
    /\ InitCore
    /\ sound = FALSE
    /\ fg_console = 0
    /\ vc_cols = 2 * WIDTH + 1
    /\ vc_rows = 2

(* ------------------------------ helpers -------------------------------- *)
\* lines 57-61: the calls beep(freq) makes to kd_mksound
beep(freq) == IF sound THEN <<freq>> ELSE <<>>

\* braille_write without the memcpy into last_write_buf
braille_write_no_memcpy(buf) ==
    IF braille_co = NULL THEN [cache |-> last_write_buf, frames |-> <<>>]
    ELSE IF last_write_buf = buf THEN [cache |-> last_write_buf, frames |-> <<>>]
    ELSE [cache |-> last_write_buf, frames |-> <<Frame(buf)>>]

\* lines 78-121: braille_write(buf): the new cache and the frames written
braille_write(buf) ==
    IF braille_co = NULL THEN [cache |-> last_write_buf, frames |-> <<>>]
    ELSE IF last_write_buf = buf THEN [cache |-> last_write_buf, frames |-> <<>>]
    ELSE [cache |-> buf, frames |-> <<Frame(buf)>>]

(* -------------------------- registration ------------------------------- *)
\* braille_register_console without the test of braille_co
braille_register_console_no_busy(console, index, console_options, has_setup, setup_ret) ==
    LET options == IF console_options = NULL THEN "57600o8" ELSE console_options
    IN
    /\ ev' = [op |-> "register", console |-> console, index |-> index,
              has_setup |-> has_setup, setup_ret |-> setup_ret]
    /\ out' = <<>> /\ cues' = <<>> /\ refreshed' = 0
    /\ UNCHANGED <<core, env, hist>>
    /\ IF FALSE
       THEN /\ ret' = -ENODEV
            /\ setup_arg' = NULL
            /\ UNCHANGED binding
       ELSE IF has_setup /\ setup_ret # 0
       THEN /\ ret' = setup_ret
            /\ setup_arg' = options
            /\ UNCHANGED binding
       ELSE /\ setup_arg' = IF has_setup THEN options ELSE NULL
            /\ con_enabled' = [con_enabled EXCEPT ![console] = TRUE]
            /\ con_index' = [con_index EXCEPT ![console] = index]
            /\ braille_co' = console
            /\ kbd_notifier' = TRUE
            /\ vt_notifier' = TRUE
            /\ ret' = 1

\* braille_register_console setting CON_ENABLED before console->setup is called
braille_register_console_early_flag(console, index, console_options, has_setup, setup_ret) ==
    LET options == IF console_options = NULL THEN "57600o8" ELSE console_options
    IN
    /\ ev' = [op |-> "register", console |-> console, index |-> index,
              has_setup |-> has_setup, setup_ret |-> setup_ret]
    /\ out' = <<>> /\ cues' = <<>> /\ refreshed' = 0
    /\ UNCHANGED <<core, env, hist>>
    /\ IF braille_co # NULL
       THEN /\ ret' = -ENODEV
            /\ setup_arg' = NULL
            /\ UNCHANGED binding
       ELSE IF has_setup /\ setup_ret # 0
       THEN /\ ret' = setup_ret
            /\ setup_arg' = options
            /\ con_enabled' = [con_enabled EXCEPT ![console] = TRUE]
            /\ UNCHANGED <<braille_co, kbd_notifier, vt_notifier, con_index>>
       ELSE /\ setup_arg' = IF has_setup THEN options ELSE NULL
            /\ con_enabled' = [con_enabled EXCEPT ![console] = TRUE]
            /\ con_index' = [con_index EXCEPT ![console] = index]
            /\ braille_co' = console
            /\ kbd_notifier' = TRUE
            /\ vt_notifier' = TRUE
            /\ ret' = 1

\* lines 320-345
braille_register_console(console, index, console_options, has_setup, setup_ret) ==
    LET options == IF console_options = NULL THEN "57600o8" ELSE console_options
    IN
    /\ ev' = [op |-> "register", console |-> console, index |-> index,
              has_setup |-> has_setup, setup_ret |-> setup_ret]
    /\ out' = <<>> /\ cues' = <<>> /\ refreshed' = 0
    /\ UNCHANGED <<core, env, hist>>
    /\ IF braille_co # NULL
       THEN /\ ret' = -ENODEV
            /\ setup_arg' = NULL
            /\ UNCHANGED binding
       ELSE IF has_setup /\ setup_ret # 0
       THEN /\ ret' = setup_ret
            /\ setup_arg' = options
            /\ UNCHANGED binding
       ELSE /\ setup_arg' = IF has_setup THEN options ELSE NULL
            /\ con_enabled' = [con_enabled EXCEPT ![console] = TRUE]
            /\ con_index' = [con_index EXCEPT ![console] = index]
            /\ braille_co' = console
            /\ kbd_notifier' = TRUE
            /\ vt_notifier' = TRUE
            /\ ret' = 1

\* braille_unregister_console without the test of console
braille_unregister_console_any(console) ==
    /\ ev' = [op |-> "unregister", console |-> console]
    /\ out' = <<>> /\ cues' = <<>> /\ refreshed' = 0 /\ setup_arg' = NULL
    /\ UNCHANGED <<core, env, hist>>
    /\ IF FALSE
       THEN /\ ret' = -EINVAL
            /\ UNCHANGED binding
       ELSE /\ kbd_notifier' = FALSE
            /\ vt_notifier' = FALSE
            /\ braille_co' = NULL
            /\ ret' = 1
            /\ UNCHANGED <<con_enabled, con_index>>

\* lines 347-356
braille_unregister_console(console) ==
    /\ ev' = [op |-> "unregister", console |-> console]
    /\ out' = <<>> /\ cues' = <<>> /\ refreshed' = 0 /\ setup_arg' = NULL
    /\ UNCHANGED <<core, env, hist>>
    /\ IF braille_co # console
       THEN /\ ret' = -EINVAL
            /\ UNCHANGED binding
       ELSE /\ kbd_notifier' = FALSE
            /\ vt_notifier' = FALSE
            /\ braille_co' = NULL
            /\ ret' = 1
            /\ UNCHANGED <<con_enabled, con_index>>

(* ----------------------------- viewport -------------------------------- *)
\* lines 63-67: refresh_vc hands the console to vc_maybe_cursor_moved and vc_refresh;
\* neither can reach this file's static variables, so only the call is counted
refresh_vc == 1

\* vc_follow_cursor without the alignment of vc_view_x to a multiple of WIDTH
vc_follow_cursor_unaligned(x, y) ==
    [view_x |-> x, view_y |-> y, last_x |-> x, last_y |-> y]

\* lines 69-75: the viewport and last cursor after vc_follow_cursor(vc)
vc_follow_cursor(x, y) ==
    [view_x |-> x - (x % WIDTH), view_y |-> y, last_x |-> x, last_y |-> y]

(* ------------------------------ keyboard ------------------------------- *)
\* handle_console_key swallowing the keys it does not act on
handle_console_key_swallow(value, x, y) ==
    IF value = BRAILLE_KEY
    THEN LET f == vc_follow_cursor(x, y)
         IN  /\ console_show' = 0
             /\ cues' = beep(BEEP_HIGH)
             /\ vc_view_x' = f.view_x /\ vc_view_y' = f.view_y
             /\ lastvc_x' = f.last_x /\ lastvc_y' = f.last_y
             /\ refreshed' = refresh_vc
             /\ ret' = NOTIFY_STOP
             /\ out' = <<>>
             /\ UNCHANGED <<console_buf, console_cursor, console_newline, lastVC,
                            last_write_buf>>
    ELSE /\ ret' = NOTIFY_STOP
         /\ cues' = <<>> /\ refreshed' = 0 /\ out' = <<>>
         /\ UNCHANGED core

\* lines 124-139, for a console whose cursor is at (x, y)
handle_console_key(value, x, y) ==
    IF value = BRAILLE_KEY
    THEN LET f == vc_follow_cursor(x, y)
         IN  /\ console_show' = 0
             /\ cues' = beep(BEEP_HIGH)
             /\ vc_view_x' = f.view_x /\ vc_view_y' = f.view_y
             /\ lastvc_x' = f.last_x /\ lastvc_y' = f.last_y
             /\ refreshed' = refresh_vc
             /\ ret' = NOTIFY_STOP
             /\ out' = <<>>
             /\ UNCHANGED <<console_buf, console_cursor, console_newline, lastVC,
                            last_write_buf>>
    ELSE /\ ret' = NOTIFY_OK
         /\ cues' = <<>> /\ refreshed' = 0 /\ out' = <<>>
         /\ UNCHANGED core

\* lines 152-163
key_left ==
    IF vc_view_x > 0
    THEN [x |-> IF vc_view_x - WIDTH < 0 THEN 0 ELSE vc_view_x - WIDTH,
          y |-> vc_view_y, cues |-> <<>>]
    ELSE IF vc_view_y >= 1
    THEN [x |-> vc_cols - WIDTH, y |-> vc_view_y - 1, cues |-> beep(BEEP_HIGH)]
    ELSE [x |-> vc_view_x, y |-> vc_view_y, cues |-> beep(BEEP_LOW)]

\* key_right stepping right without the test against vc_cols
key_right_no_edge ==
    [x |-> vc_view_x + WIDTH, y |-> vc_view_y, cues |-> <<>>]

\* lines 164-173
key_right ==
    IF vc_view_x + WIDTH < vc_cols
    THEN [x |-> vc_view_x + WIDTH, y |-> vc_view_y, cues |-> <<>>]
    ELSE IF vc_view_y + 1 < vc_rows
    THEN [x |-> 0, y |-> vc_view_y + 1, cues |-> beep(BEEP_HIGH)]
    ELSE [x |-> vc_view_x, y |-> vc_view_y, cues |-> beep(BEEP_LOW)]

\* lines 174-179
key_down ==
    IF vc_view_y + 1 < vc_rows
    THEN [x |-> vc_view_x, y |-> vc_view_y + 1, cues |-> <<>>]
    ELSE [x |-> vc_view_x, y |-> vc_view_y, cues |-> beep(BEEP_LOW)]

\* key_up without the test of vc_view_y
key_up_no_floor ==
    [x |-> vc_view_x, y |-> vc_view_y - 1, cues |-> <<>>]

\* lines 180-185
key_up ==
    IF vc_view_y >= 1
    THEN [x |-> vc_view_x, y |-> vc_view_y - 1, cues |-> <<>>]
    ELSE [x |-> vc_view_x, y |-> vc_view_y, cues |-> beep(BEEP_LOW)]

\* handle_vc_key leaving Browsing without the braille_write of line 150
handle_vc_key_no_resend(value, x, y) ==
    /\ refreshed' = refresh_vc
    /\ UNCHANGED <<console_buf, console_cursor, console_newline>>
    /\ IF value = KEY_INSERT
       THEN LET w == braille_write(console_buf)
            IN  /\ cues' = beep(BEEP_MED)
                /\ console_show' = 1
                /\ lastVC' = -1
                /\ last_write_buf' = last_write_buf
                /\ out' = <<>>
                /\ ret' = NOTIFY_STOP
                /\ UNCHANGED <<vc_view_x, vc_view_y, lastvc_x, lastvc_y>>
       ELSE /\ out' = <<>>
            /\ UNCHANGED <<console_show, lastVC, last_write_buf>>
            /\ IF value \in {KEY_LEFT, KEY_RIGHT, KEY_DOWN, KEY_UP}
               THEN LET m == IF value = KEY_LEFT THEN key_left
                             ELSE IF value = KEY_RIGHT THEN key_right
                             ELSE IF value = KEY_DOWN THEN key_down
                             ELSE key_up
                    IN  /\ vc_view_x' = m.x /\ vc_view_y' = m.y
                        /\ cues' = m.cues
                        /\ ret' = NOTIFY_STOP
                        /\ UNCHANGED <<lastvc_x, lastvc_y>>
               ELSE IF value = KEY_HOME
               THEN LET f == vc_follow_cursor(x, y)
                    IN  /\ vc_view_x' = f.view_x /\ vc_view_y' = f.view_y
                        /\ lastvc_x' = f.last_x /\ lastvc_y' = f.last_y
                        /\ cues' = <<>>
                        /\ ret' = NOTIFY_STOP
               ELSE IF value = KEY_PAGEUP
               THEN /\ vc_view_x' = 0 /\ vc_view_y' = 0
                    /\ cues' = <<>>
                    /\ ret' = NOTIFY_STOP
                    /\ UNCHANGED <<lastvc_x, lastvc_y>>
               ELSE IF value = KEY_PAGEDOWN
               THEN /\ vc_view_x' = 0 /\ vc_view_y' = vc_rows - 1
                    /\ cues' = <<>>
                    /\ ret' = NOTIFY_STOP
                    /\ UNCHANGED <<lastvc_x, lastvc_y>>
               ELSE /\ ret' = NOTIFY_OK
                    /\ cues' = <<>>
                    /\ UNCHANGED <<vc_view_x, vc_view_y, lastvc_x, lastvc_y>>

\* lines 141-204, for a console whose cursor is at (x, y)
handle_vc_key(value, x, y) ==
    /\ refreshed' = refresh_vc
    /\ UNCHANGED <<console_buf, console_cursor, console_newline>>
    /\ IF value = KEY_INSERT
       THEN LET w == braille_write(console_buf)
            IN  /\ cues' = beep(BEEP_MED)
                /\ console_show' = 1
                /\ lastVC' = -1
                /\ last_write_buf' = w.cache
                /\ out' = w.frames
                /\ ret' = NOTIFY_STOP
                /\ UNCHANGED <<vc_view_x, vc_view_y, lastvc_x, lastvc_y>>
       ELSE /\ out' = <<>>
            /\ UNCHANGED <<console_show, lastVC, last_write_buf>>
            /\ IF value \in {KEY_LEFT, KEY_RIGHT, KEY_DOWN, KEY_UP}
               THEN LET m == IF value = KEY_LEFT THEN key_left
                             ELSE IF value = KEY_RIGHT THEN key_right
                             ELSE IF value = KEY_DOWN THEN key_down
                             ELSE key_up
                    IN  /\ vc_view_x' = m.x /\ vc_view_y' = m.y
                        /\ cues' = m.cues
                        /\ ret' = NOTIFY_STOP
                        /\ UNCHANGED <<lastvc_x, lastvc_y>>
               ELSE IF value = KEY_HOME
               THEN LET f == vc_follow_cursor(x, y)
                    IN  /\ vc_view_x' = f.view_x /\ vc_view_y' = f.view_y
                        /\ lastvc_x' = f.last_x /\ lastvc_y' = f.last_y
                        /\ cues' = <<>>
                        /\ ret' = NOTIFY_STOP
               ELSE IF value = KEY_PAGEUP
               THEN /\ vc_view_x' = 0 /\ vc_view_y' = 0
                    /\ cues' = <<>>
                    /\ ret' = NOTIFY_STOP
                    /\ UNCHANGED <<lastvc_x, lastvc_y>>
               ELSE IF value = KEY_PAGEDOWN
               THEN /\ vc_view_x' = 0 /\ vc_view_y' = vc_rows - 1
                    /\ cues' = <<>>
                    /\ ret' = NOTIFY_STOP
                    /\ UNCHANGED <<lastvc_x, lastvc_y>>
               ELSE /\ ret' = NOTIFY_OK
                    /\ cues' = <<>>
                    /\ UNCHANGED <<vc_view_x, vc_view_y, lastvc_x, lastvc_y>>

\* KTYP, KVAL and the keymap entry K(t, v) as the keyboard driver passes it
KTYP(sym) == sym \div 256
KVAL(sym) == sym % 256
Keysym(t, v) == (240 + t) * 256 + v
K_CAPS == Keysym(KT_SPEC, 7)
K_NUM == Keysym(KT_SPEC, 8)
K_HOLD == Keysym(KT_SPEC, 9)
K_ENTER == Keysym(KT_SPEC, 1)
K_LATIN_A == Keysym(0, 97)

\* lines 225-238: led is what vt_get_leds reports for the key's lock
post_keysym(value, led) ==
    LET type == (KTYP(value) - 240) % 256
        val == KVAL(value)
        on_off == IF type = KT_SPEC /\ val \in {KVAL(K_CAPS), KVAL(K_NUM), KVAL(K_HOLD)}
                  THEN led ELSE -1
    IN  IF type # KT_SPEC THEN <<>>
        ELSE IF on_off = 1 THEN beep(BEEP_HIGH)
        ELSE IF on_off = 0 THEN beep(BEEP_MED)
        ELSE <<>>

\* lines 207-248: one notification of the keyboard chain; (x, y) is the cursor of
\* param->vc and led the state of the lock leds
keyboard_notifier_call(code, down, value, x, y, led) ==
    /\ kbd_notifier
    /\ ev' = [op |-> code, down |-> down, value |-> value, x |-> x, y |-> y]
    /\ setup_arg' = NULL
    /\ UNCHANGED <<binding, env, hist>>
    /\ IF ~down
       THEN /\ ret' = NOTIFY_OK
            /\ out' = <<>> /\ cues' = <<>> /\ refreshed' = 0
            /\ UNCHANGED core
       ELSE IF code = "KBD_KEYCODE"
       THEN IF console_show # 0
            THEN handle_console_key(value, x, y)
            ELSE handle_vc_key(value, x, y)
       ELSE IF code = "KBD_POST_KEYSYM"
       THEN /\ cues' = post_keysym(value, led)
            /\ ret' = NOTIFY_OK
            /\ out' = <<>> /\ refreshed' = 0
            /\ UNCHANGED core
       ELSE /\ ret' = NOTIFY_OK
            /\ out' = <<>> /\ cues' = <<>> /\ refreshed' = 0
            /\ UNCHANGED core

(* ----------------------------- line buffer ----------------------------- *)
\* line_write without the memmove of line 288
line_write_no_shift(c) ==
    IF c \in {8, 127}
    THEN IF console_cursor > 0
         THEN [buf |-> [console_buf EXCEPT ![console_cursor] = 32],
               cursor |-> console_cursor - 1,
               newline |-> console_newline]
         ELSE [buf |-> console_buf, cursor |-> console_cursor, newline |-> console_newline]
    ELSE IF c \in {10, 11, 12, 13}
    THEN [buf |-> console_buf, cursor |-> console_cursor, newline |-> 1]
    ELSE LET ch == IF c = 9 THEN 32 ELSE c
         IN  IF ch < 32
             THEN [buf |-> console_buf, cursor |-> console_cursor,
                   newline |-> console_newline]
             ELSE LET b0 == IF console_newline # 0 THEN Blank ELSE console_buf
                      c0 == IF console_newline # 0 THEN 0 ELSE console_cursor
                      b1 == b0
                      c1 == IF c0 = WIDTH THEN c0 ELSE c0 + 1
                  IN  [buf |-> [b1 EXCEPT ![c1] = ch], cursor |-> c1, newline |-> 0]

\* line_write clearing the line at the line terminator itself
line_write_eager(c) ==
    IF c \in {8, 127}
    THEN IF console_cursor > 0
         THEN [buf |-> [console_buf EXCEPT ![console_cursor] = 32],
               cursor |-> console_cursor - 1,
               newline |-> console_newline]
         ELSE [buf |-> console_buf, cursor |-> console_cursor, newline |-> console_newline]
    ELSE IF c \in {10, 11, 12, 13}
    THEN [buf |-> Blank, cursor |-> 0, newline |-> 1]
    ELSE LET ch == IF c = 9 THEN 32 ELSE c
         IN  IF ch < 32
             THEN [buf |-> console_buf, cursor |-> console_cursor,
                   newline |-> console_newline]
             ELSE LET b0 == IF console_newline # 0 THEN Blank ELSE console_buf
                      c0 == IF console_newline # 0 THEN 0 ELSE console_cursor
                      b1 == IF c0 = WIDTH
                            THEN [i \in 1..WIDTH |-> IF i < WIDTH THEN b0[i + 1] ELSE b0[i]]
                            ELSE b0
                      c1 == IF c0 = WIDTH THEN c0 ELSE c0 + 1
                  IN  [buf |-> [b1 EXCEPT ![c1] = ch], cursor |-> c1, newline |-> 0]

\* line_write erasing at console_cursor 0 too
line_write_no_guard(c) ==
    IF c \in {8, 127}
    THEN [buf |-> [i \in 1..WIDTH |-> IF i = console_cursor THEN 32 ELSE console_buf[i]],
          cursor |-> console_cursor - 1,
          newline |-> console_newline]
    ELSE IF c \in {10, 11, 12, 13}
    THEN [buf |-> console_buf, cursor |-> console_cursor, newline |-> 1]
    ELSE LET ch == IF c = 9 THEN 32 ELSE c
         IN  IF ch < 32
             THEN [buf |-> console_buf, cursor |-> console_cursor,
                   newline |-> console_newline]
             ELSE LET b0 == IF console_newline # 0 THEN Blank ELSE console_buf
                      c0 == IF console_newline # 0 THEN 0 ELSE console_cursor
                      b1 == IF c0 = WIDTH
                            THEN [i \in 1..WIDTH |-> IF i < WIDTH THEN b0[i + 1] ELSE b0[i]]
                            ELSE b0
                      c1 == IF c0 = WIDTH THEN c0 ELSE c0 + 1
                  IN  [buf |-> [b1 EXCEPT ![c1] = ch], cursor |-> c1, newline |-> 0]

\* lines 268-293: the line buffer after the character c
line_write(c) ==
    IF c \in {8, 127}
    THEN IF console_cursor > 0
         THEN [buf |-> [console_buf EXCEPT ![console_cursor] = 32],
               cursor |-> console_cursor - 1,
               newline |-> console_newline]
         ELSE [buf |-> console_buf, cursor |-> console_cursor, newline |-> console_newline]
    ELSE IF c \in {10, 11, 12, 13}
    THEN [buf |-> console_buf, cursor |-> console_cursor, newline |-> 1]
    ELSE LET ch == IF c = 9 THEN 32 ELSE c
         IN  IF ch < 32
             THEN [buf |-> console_buf, cursor |-> console_cursor,
                   newline |-> console_newline]
             ELSE LET b0 == IF console_newline # 0 THEN Blank ELSE console_buf
                      c0 == IF console_newline # 0 THEN 0 ELSE console_cursor
                      b1 == IF c0 = WIDTH
                            THEN [i \in 1..WIDTH |-> IF i < WIDTH THEN b0[i + 1] ELSE b0[i]]
                            ELSE b0
                      c1 == IF c0 = WIDTH THEN c0 ELSE c0 + 1
                  IN  [buf |-> [b1 EXCEPT ![c1] = ch], cursor |-> c1, newline |-> 0]

\* the characters stored since the line was last empty, while that is known
fed_after(c) ==
    LET ch == IF c = 9 THEN 32 ELSE c
    IN  IF c \in {8, 127}
        THEN IF console_cursor = 0 THEN [fed |-> fed, ok |-> fed_ok]
             ELSE IF console_cursor = 1 THEN [fed |-> <<>>, ok |-> TRUE]
             ELSE [fed |-> <<>>, ok |-> FALSE]
        ELSE IF c \in {10, 11, 12, 13} \/ ch < 32 THEN [fed |-> fed, ok |-> fed_ok]
        ELSE IF console_newline # 0 THEN [fed |-> <<ch>>, ok |-> TRUE]
        ELSE IF fed_ok /\ Len(fed) < WIDTH + ExtraFed THEN [fed |-> Append(fed, ch), ok |-> TRUE]
        ELSE [fed |-> <<>>, ok |-> FALSE]

(* ----------------------------- vt notifier ----------------------------- *)
\* show_line writing to the device in either mode
show_line_always(buf) ==
    LET w == braille_write(buf)
    IN  [cache |-> w.cache, frames |-> w.frames, refreshed |-> 0]

\* lines 294-295: where a written character is shown
show_line(buf) ==
    IF console_show # 0
    THEN LET w == braille_write(buf)
         IN  [cache |-> w.cache, frames |-> w.frames, refreshed |-> 0]
    ELSE [cache |-> last_write_buf, frames |-> <<>>, refreshed |-> refresh_vc]

\* lines 255-313: one notification of the vt chain for console vc_num
vt_notifier_call(code, vc_num, c) ==
    /\ vt_notifier
    /\ ev' = [op |-> code, vc |-> vc_num, c |-> c]
    /\ ret' = NOTIFY_OK
    /\ cues' = <<>> /\ setup_arg' = NULL
    /\ UNCHANGED <<binding, env>>
    /\ UNCHANGED <<vc_view_x, vc_view_y, lastvc_x, lastvc_y, console_show>>
    /\ IF code = "VT_WRITE"
       THEN IF vc_num # fg_console
            THEN /\ out' = <<>> /\ refreshed' = 0
                 /\ UNCHANGED <<console_buf, console_cursor, console_newline, lastVC,
                                last_write_buf, hist>>
            ELSE LET l == line_write(c)
                     h == fed_after(c)
                     w == show_line(l.buf)
                 IN  /\ console_buf' = l.buf
                     /\ console_cursor' = l.cursor
                     /\ console_newline' = l.newline
                     /\ fed' = h.fed /\ fed_ok' = h.ok
                     /\ UNCHANGED lastVC
                     /\ last_write_buf' = w.cache
                     /\ out' = w.frames
                     /\ refreshed' = w.refreshed
       ELSE IF code = "VT_UPDATE"
       THEN IF console_show # 0
            THEN IF vc_num # lastVC
                 THEN LET w == braille_write(Blank)
                      IN  /\ lastVC' = vc_num
                          /\ console_buf' = Blank
                          /\ console_cursor' = 0
                          /\ last_write_buf' = w.cache
                          /\ out' = w.frames
                          /\ refreshed' = 0
                          /\ fed' = <<>> /\ fed_ok' = TRUE
                          /\ UNCHANGED console_newline
                 ELSE /\ out' = <<>> /\ refreshed' = 0
                      /\ UNCHANGED <<console_buf, console_cursor, console_newline, lastVC,
                                     last_write_buf, hist>>
            ELSE /\ refreshed' = refresh_vc
                 /\ out' = <<>>
                 /\ UNCHANGED <<console_buf, console_cursor, console_newline, lastVC,
                                last_write_buf, hist>>
       ELSE /\ out' = <<>> /\ refreshed' = 0
            /\ UNCHANGED <<console_buf, console_cursor, console_newline, lastVC,
                           last_write_buf, hist>>

(* ------------------ line buffer, modes and encoder --------------------- *)
\* characters written to the foreground console: backspace, newline, tab, bell and
\* two characters that are stored (tab is stored as a space)
Chars == {8, 10, 9, 7, 65}
\* key codes pressed
Keys == {KEY_INSERT, KEY_DOWN}

Register == braille_register_console("d1", 0, NULL, FALSE, 0)

KeyCode ==
    \E value \in Keys : keyboard_notifier_call("KBD_KEYCODE", TRUE, value, WIDTH + 1, 0, 0)

VtWrite ==
    \E vc_num \in VCs, c \in Chars :
        /\ vc_num # fg_console => c = 65
        /\ vt_notifier_call("VT_WRITE", vc_num, c)

VtUpdate == \E vc_num \in VCs : vt_notifier_call("VT_UPDATE", vc_num, 0)

Next == Register \/ KeyCode \/ VtWrite \/ VtUpdate

Spec == Init /\ [][Next]_vars

(* ----------------------------- registration ---------------------------- *)
BindRegister ==
    \E console \in Devices, index \in {0, 1}, options \in {NULL, "9600n8"},
       has_setup \in BOOLEAN, setup_ret \in {0, -EINVAL} :
        /\ ~has_setup => setup_ret = 0
        /\ braille_register_console(console, index, options, has_setup, setup_ret)

BindUnregister == \E console \in Devices : braille_unregister_console(console)

BindKey == keyboard_notifier_call("KBD_KEYCODE", TRUE, KEY_INSERT, WIDTH + 1, 1, 0)

BindWrite == \E c \in {12, 127, 200} : vt_notifier_call("VT_WRITE", 0, c)

NextBind == BindRegister \/ BindUnregister \/ BindKey \/ BindWrite

SpecBind == Init /\ [][NextBind]_vars

(* ------------------------- keys and the viewport ----------------------- *)
ViewKeys == {KEY_INSERT, KEY_LEFT, KEY_RIGHT, KEY_DOWN, KEY_UP, KEY_HOME, KEY_PAGEUP,
             KEY_PAGEDOWN, KEY_A}
Keysyms == {K_CAPS, K_NUM, K_HOLD, K_ENTER, K_LATIN_A}

\* the consoles' dimensions range over grids at least WIDTH wide
InitView ==
    /\ InitCore
    /\ sound \in BOOLEAN
    /\ fg_console = 0
    /\ vc_cols \in {WIDTH, 2 * WIDTH + 1}
    /\ vc_rows \in {1, 2}

ViewRegister == braille_register_console("d1", 0, NULL, FALSE, 0)

ViewKey ==
    \E down \in BOOLEAN, value \in ViewKeys, x \in {0, vc_cols - 1}, y \in {0, vc_rows - 1} :
        /\ ~down => value \in {KEY_INSERT, KEY_UP} /\ x = 0 /\ y = 0
        /\ value \notin {KEY_INSERT, KEY_HOME} => x = 0 /\ y = 0
        /\ keyboard_notifier_call("KBD_KEYCODE", down, value, x, y, 0)

ViewPostKeysym ==
    \E down \in BOOLEAN, value \in Keysyms, led \in {0, 1} :
        /\ ~down => value = K_CAPS /\ led = 1
        /\ value \notin {K_CAPS, K_NUM, K_HOLD} => led = 0
        /\ value \in {K_NUM, K_HOLD} => led = 1
        /\ keyboard_notifier_call("KBD_POST_KEYSYM", down, value, 0, 0, led)

ViewKeysym == keyboard_notifier_call("KBD_KEYSYM", TRUE, K_CAPS, 0, 0, 0)

ViewWrite == \E c \in {13, 66} : vt_notifier_call("VT_WRITE", 0, c)

ViewUpdate == vt_notifier_call("VT_UPDATE", 0, 0)

NextView ==
    ViewRegister \/ ViewKey \/ ViewPostKeysym \/ ViewKeysym \/ ViewWrite \/ ViewUpdate

SpecView == InitView /\ [][NextView]_vars

(* ------------------------- encoder on its own -------------------------- *)
\* code points handed to braille_write when it is exercised directly
CodePoints == {0, 3, 6, 62, 321}

\* a call braille_write(buf) with a console bound
WriteLine(buf) ==
    LET w == braille_write(buf)
    IN
    /\ braille_co # NULL
    /\ ev' = [op |-> "braille_write", buf |-> buf]
    /\ last_write_buf' = w.cache
    /\ out' = w.frames
    /\ ret' = 0 /\ cues' = <<>> /\ refreshed' = 0 /\ setup_arg' = NULL
    /\ UNCHANGED <<console_buf, console_cursor, vc_view_x, vc_view_y, lastvc_x, lastvc_y,
                   console_show, console_newline, lastVC>>
    /\ UNCHANGED <<binding, env, hist>>

EncRegister == braille_register_console("d1", 0, NULL, FALSE, 0)
EncWrite == \E buf \in [1..WIDTH -> CodePoints] : WriteLine(buf)

NextEnc == EncRegister \/ EncWrite

SpecEnc == Init /\ [][NextEnc]_vars

(* ======================= properties of the encoder ===================== *)
\* what a reader of the wire format does with a frame, and what the format
\* promises about it
ClearBit40(v) == IF (v \div 64) % 2 = 1 THEN v - 64 ELSE v

RECURSIVE Unescape(_)
\* the data bytes of an escaped byte string
Unescape(bytes) ==
    IF bytes = <<>> THEN <<>>
    ELSE IF bytes[1] = 1 /\ Len(bytes) >= 2
    THEN <<ClearBit40(bytes[2])>> \o Unescape(SubSeq(bytes, 3, Len(bytes)))
    ELSE <<bytes[1]>> \o Unescape(Tail(bytes))

\* the bytes of a frame between the command byte and ETX
Payload(frame) == SubSeq(frame, 3, Len(frame) - 1)

\* the substituted character values of a line
Substituted(buf) ==
    [i \in 1..WIDTH |-> IF buf[i] >= 256 THEN 63 ELSE IF buf[i] = 0 THEN 32 ELSE buf[i]]

RECURSIVE XorAll(_)
XorAll(bytes) == IF bytes = <<>> THEN 0 ELSE BitOp("xor", bytes[1], XorAll(Tail(bytes)), 8)

\* the checksum the format asks for: '>' and the substituted characters
Checksum(buf) == XorAll(<<62>> \o Substituted(buf))

RECURSIVE EscapeAll(_, _)
\* the data bytes, each escaped when its value is in lo..5
EscapeAll(bytes, lo) ==
    IF bytes = <<>> THEN <<>>
    ELSE (IF bytes[1] >= lo /\ bytes[1] <= 5 THEN <<1, bytes[1] + 64>> ELSE <<bytes[1]>>)
         \o EscapeAll(Tail(bytes), lo)

\* a call of braille_write has just been made
Called == ev.op = "braille_write"

\* C1 as claimed: a call of braille_write with a console bound, together with an
\* immediate second call with the same line, writes exactly one frame: the
\* first call one, the second none.
C1_AsClaimed ==
    Called => Len(out) = 1 /\ Len(braille_write(ev.buf).frames) = 0

\* C1: of two consecutive calls of braille_write with the same line L and a console
\* bound, the second writes nothing, and the first writes one frame exactly when L
\* differs from the line written last (the cache, all zero at first); so the two
\* calls make at most one transport write.
C1_Idempotent ==
    /\ [](Called => Len(braille_write(ev.buf).frames) = 0 /\ last_write_buf = ev.buf)
    /\ [][ev'.op = "braille_write" =>
            /\ last_write_buf # ev'.buf => out' = <<Frame(ev'.buf)>>
            /\ last_write_buf = ev'.buf => out' = <<>>]_vars

\* a second call with a line that the call before it wrote
C1_Witness ==
    /\ Called /\ out = <<>>
    /\ last_write_buf = ev.buf
    /\ \E i \in 1..WIDTH : ev.buf[i] # 0

\* C2: the checksum byte of every frame written, with its escape undone, is the
\* 8-bit XOR of '>' and the WIDTH substituted character values.
C2_Checksum ==
    Called =>
        \A k \in 1..Len(out) :
            LET data == Unescape(Payload(out[k]))
            IN  /\ Len(data) = WIDTH + 1
                /\ data[WIDTH + 1] = Checksum(ev.buf)

\* a frame for a line with a code point above 0xFF, a zero and a character that is
\* escaped
C2_Witness ==
    /\ Called /\ Len(out) = 1
    /\ \E i, j, k \in 1..WIDTH : ev.buf[i] >= 256 /\ ev.buf[j] = 0 /\ ev.buf[k] \in 1..5

LastN(seq, n) == SubSeq(seq, Len(seq) - n + 1, Len(seq))

\* C4: after more than WIDTH printable characters have been written from the
\* foreground console to a line that was empty or had console_newline set, with no
\* line terminator or backspace among them, console_buf is the last WIDTH of them
\* and console_cursor is WIDTH; after WIDTH + 1 of them only the first is dropped.
C4_SlidingWindow ==
    fed_ok /\ Len(fed) > WIDTH =>
        /\ console_buf = LastN(fed, WIDTH)
        /\ console_cursor = WIDTH
        /\ Len(fed) = WIDTH + 1 => console_buf = Tail(fed)

\* WIDTH + 1 characters written, the first differing from the second
C4_Witness ==
    /\ fed_ok /\ Len(fed) = WIDTH + 1
    /\ fed[1] # fed[2]
    /\ ev.op = "VT_WRITE"

\* the character a written byte is stored as, or 0 when it is not stored
Stored(c) == IF c = 9 THEN 32 ELSE IF c >= 32 /\ c # 127 THEN c ELSE 0

\* C5: a line terminator from the foreground console sets console_newline and leaves
\* console_buf and console_cursor as they are; a printable character that arrives
\* while console_newline is set leaves the line holding that character at position
\* 0 and zeros elsewhere, with console_cursor 1 and console_newline cleared.
C5_LazyClear ==
    [][ev'.op = "VT_WRITE" /\ ev'.vc = fg_console =>
          /\ ev'.c \in {10, 11, 12, 13} =>
                /\ console_newline' = 1
                /\ console_buf' = console_buf
                /\ console_cursor' = console_cursor
          /\ Stored(ev'.c) # 0 /\ console_newline # 0 =>
                /\ console_buf' = [i \in 1..WIDTH |-> IF i = 1 THEN Stored(ev'.c) ELSE 0]
                /\ console_cursor' = 1
                /\ console_newline' = 0]_vars

\* while Browsing, a line that held a character at position 1 when Browsing was
\* entered has been cleared by the character written after a line terminator
C5_Witness ==
    /\ ev.op = "VT_WRITE" /\ ev.c = 65
    /\ console_show = 0 /\ last_write_buf[2] = 65
    /\ console_buf = [i \in 1..WIDTH |-> IF i = 1 THEN 65 ELSE 0]
    /\ console_cursor = 1 /\ console_newline = 0

\* C6: the second press of the trigger key, which ends Browsing, writes exactly one
\* frame to the transport, the frame of console_buf as it then stands.
C6_AsClaimed ==
    ev.op = "KBD_KEYCODE" /\ ev.down /\ ev.value = KEY_INSERT /\ console_show = 1 =>
        out = <<Frame(console_buf)>>

\* the line buffer after the character c, as the description of the buffer has it
LineAfter(line, cursor, newline, c) ==
    IF c \in {8, 127}
    THEN IF cursor > 0
         THEN <<[line EXCEPT ![cursor] = 32], cursor - 1, newline>>
         ELSE <<line, cursor, newline>>
    ELSE IF c \in {10, 11, 12, 13} THEN <<line, cursor, 1>>
    ELSE IF Stored(c) = 0 THEN <<line, cursor, newline>>
    ELSE LET start == IF newline # 0 THEN [i \in 1..WIDTH |-> 0] ELSE line
             at == IF newline # 0 THEN 0 ELSE cursor
         IN  IF at = WIDTH
             THEN <<Append(Tail(start), Stored(c)), WIDTH, 0>>
             ELSE <<[start EXCEPT ![at + 1] = Stored(c)], at + 1, 0>>

\* C7: a character written from the foreground console changes the line buffer in
\* the same way whatever the mode; while Browsing it causes no transport write, and
\* while Following a write that changes console_buf causes exactly one transport
\* write, of the frame of the new line.
C7_WriteByMode ==
    [][ev'.op = "VT_WRITE" /\ ev'.vc = fg_console =>
          /\ <<console_buf', console_cursor', console_newline'>>
                = LineAfter(console_buf, console_cursor, console_newline, ev'.c)
          /\ console_show' = console_show
          /\ console_show = 0 => out' = <<>>
          /\ console_show # 0 /\ console_buf' # console_buf => out' = <<Frame(console_buf')>>
          /\ console_show # 0 /\ console_buf' = console_buf => out' = <<>>]_vars

\* while Browsing a written character has changed the line and nothing was sent
C7_Witness ==
    /\ ev.op = "VT_WRITE" /\ ev.vc = fg_console /\ ev.c = 65
    /\ console_show = 0
    /\ console_buf # last_write_buf
    /\ out = <<>> /\ refreshed = 1

(* ====================== properties of registration ===================== *)
\* C8: a register call for a console other than the bound one, while one is bound,
\* returns -ENODEV and changes neither the binding, the notifier registrations, the
\* consoles' flags and indexes, the mode, the line buffer nor the viewport.
C8_ExclusiveBinding ==
    [][ev'.op = "register" /\ braille_co # NULL /\ ev'.console # braille_co =>
          /\ ret' = -ENODEV
          /\ braille_co' = braille_co
          /\ setup_arg' = NULL
          /\ UNCHANGED <<core, binding>>]_vars

\* a second console was refused while the first was bound and Browsing
C8_Witness ==
    /\ ev.op = "register" /\ ret = -ENODEV
    /\ braille_co # NULL /\ ev.console # braille_co
    /\ console_show = 0

SetupFailed ==
    ev.op = "register" /\ ev.has_setup /\ ev.setup_ret # 0 /\ ret = ev.setup_ret

\* C10 as claimed: after a register call whose setup failed no console is bound,
\* the console is not marked enabled and neither notifier is registered.
C10_AsClaimed ==
    SetupFailed =>
        /\ braille_co = NULL
        /\ ~con_enabled[ev.console]
        /\ ~kbd_notifier /\ ~vt_notifier

\* C10: a register call made while no console is bound and whose setup fails
\* returns the setup's result and binds nothing; it leaves the console's
\* CON_ENABLED flag and index as they were (a flag set by an earlier successful
\* register stays set, since unregister does not clear it), neither notifier is
\* registered, and any register call made while no console is bound whose setup
\* does not fail, a later one included, succeeds.
C10_SetupFailure ==
    [][ev'.op = "register" /\ braille_co = NULL =>
          IF ev'.has_setup /\ ev'.setup_ret # 0
          THEN /\ ret' = ev'.setup_ret
               /\ braille_co' = NULL
               /\ con_enabled' = con_enabled /\ con_index' = con_index
               /\ ~kbd_notifier' /\ ~vt_notifier'
               /\ UNCHANGED core
          ELSE /\ ret' = 1
               /\ braille_co' = ev'.console
               /\ con_enabled'[ev'.console] /\ con_index'[ev'.console] = ev'.index
               /\ kbd_notifier' /\ vt_notifier']_vars

\* the setup of a console that was never bound has failed
C10_Witness ==
    /\ SetupFailed
    /\ braille_co = NULL /\ ~con_enabled[ev.console]
    /\ setup_arg = "57600o8"

\* the core as the C initialisers leave it: Following, a blank line, cursor 0,
\* viewport (0, 0) and no terminal recorded
Cleared ==
    /\ console_show = 1
    /\ console_buf = Blank
    /\ console_cursor = 0
    /\ vc_view_x = 0 /\ vc_view_y = 0
    /\ lastVC = -1

\* C11: immediately after every successful register call, one that follows an
\* unregister included, the core is cleared: Following, console_buf blank,
\* console_cursor 0, viewport (0, 0) and lastVC unset.
C11_AsClaimed ==
    ev.op = "register" /\ ret = 1 => Cleared

(* ================== properties of keys and the viewport ================ *)
\* the pan a key code asks for is blocked at an edge of the grid
Blocked(value) ==
    \/ value = KEY_LEFT /\ vc_view_x = 0 /\ vc_view_y = 0
    \/ value = KEY_RIGHT /\ vc_view_x + WIDTH >= vc_cols /\ vc_view_y + 1 >= vc_rows
    \/ value = KEY_UP /\ vc_view_y = 0
    \/ value = KEY_DOWN /\ vc_view_y + 1 >= vc_rows

\* C12: while Browsing, a pan key pressed when the pan is blocked at an edge of the
\* grid leaves the viewport, the mode and the line buffer as they are, asks for the
\* blocked cue and no other (for none when sound is off), writes nothing to the
\* transport and is reported as handled.
C12_BlockedPan ==
    [][ev'.op = "KBD_KEYCODE" /\ ev'.down /\ console_show = 0 /\ Blocked(ev'.value) =>
          /\ UNCHANGED <<vc_view_x, vc_view_y, console_show>>
          /\ UNCHANGED <<console_buf, console_cursor, console_newline>>
          /\ cues' = IF sound THEN <<BEEP_LOW>> ELSE <<>>
          /\ out' = <<>>
          /\ ret' = NOTIFY_STOP]_vars

\* a pan to the right was blocked at the last page of the last row, away from the
\* origin, and the blocked cue was sounded
C12_Witness ==
    /\ ev.op = "KBD_KEYCODE" /\ ev.down /\ ev.value = KEY_RIGHT
    /\ console_show = 0
    /\ vc_view_x > 0 /\ vc_view_x + WIDTH >= vc_cols /\ vc_view_y + 1 >= vc_rows
    /\ cues = <<BEEP_LOW>> /\ out = <<>>

(* =================== the encoder and the blank line ==================== *)
\* C13: a call of braille_write with the all-blank line writes a full frame
\* whenever an identical line was not the last one written: when it is the first
\* line encoded after the console was bound, and when the call before it wrote the
\* frame of a line that is not blank.
C13_AsClaimed ==
    [][/\ ev'.op = "braille_write" /\ ev'.buf = Blank
       /\ \/ ev.op = "register" /\ ret = 1
          \/ ev.op = "braille_write" /\ out # <<>> /\ ev.buf # Blank
       => out' = <<Frame(Blank)>>]_vars

(* ==================== the switch of the terminal ======================= *)
\* C14: while Following, a terminal event (an update, or a write from the
\* foreground console) of a console other than the one recorded in lastVC records
\* that console in lastVC, resets the line buffer and writes the frame of the blank
\* line before the event's character, if any, is processed; while Browsing the same
\* event does not reset the line buffer.
C14_AsClaimed ==
    [][/\ \/ ev'.op = "VT_UPDATE"
          \/ ev'.op = "VT_WRITE" /\ ev'.vc = fg_console
       /\ ev'.vc # lastVC
       =>
       IF console_show # 0
       THEN /\ lastVC' = ev'.vc
            /\ Len(out') >= 1 /\ out'[1] = Frame(Blank)
            /\ ev'.op = "VT_UPDATE" => console_buf' = Blank /\ console_cursor' = 0
            /\ ev'.op = "VT_WRITE" =>
                  <<console_buf', console_cursor', console_newline'>>
                      = LineAfter(Blank, 0, console_newline, ev'.c)
       ELSE /\ ev'.op = "VT_UPDATE" =>
                  console_buf' = console_buf /\ console_cursor' = console_cursor
            /\ ev'.op = "VT_WRITE" =>
                  <<console_buf', console_cursor', console_newline'>>
                      = LineAfter(console_buf, console_cursor, console_newline, ev'.c)]_vars

(* ===================== the range of the viewport ======================= *)
\* C15 as claimed: the viewport stays within 0..vc_cols - WIDTH and 0..vc_rows - 1.
C15_AsClaimed ==
    /\ 0 <= vc_view_x /\ vc_view_x <= vc_cols - WIDTH
    /\ 0 <= vc_view_y /\ vc_view_y <= vc_rows - 1

\* C15: on a grid at least WIDTH wide and one row high, with the cursor inside the
\* grid, the viewport stays within 0..vc_cols - 1 and 0..vc_rows - 1 under every
\* sequence of key presses; vc_view_x stays within 0..vc_cols - WIDTH when vc_cols
\* is a multiple of WIDTH, and is otherwise either within that range or a multiple
\* of WIDTH (the start of the last, partial page).
C15_ViewportRange ==
    /\ 0 <= vc_view_x /\ vc_view_x <= vc_cols - 1
    /\ 0 <= vc_view_y /\ vc_view_y <= vc_rows - 1
    /\ vc_cols % WIDTH = 0 => vc_view_x <= vc_cols - WIDTH
    /\ vc_view_x > vc_cols - WIDTH => vc_view_x % WIDTH = 0

\* the viewport stands on the partial last page, beyond vc_cols - WIDTH, and a pan
\* has just moved it there
C15_Witness ==
    /\ ev.op = "KBD_KEYCODE" /\ ev.down /\ ev.value = KEY_RIGHT
    /\ console_show = 0
    /\ vc_view_x > vc_cols - WIDTH
    /\ vc_view_y = vc_rows - 1 /\ vc_rows > 1

(* ======================= keys that are passed on ======================= *)
\* C16: while Following every key-down notification other than the trigger key, and
\* in either mode every key-up notification, returns NOTIFY_OK and changes neither
\* the mode, the viewport, the last cursor position, the line buffer nor lastVC,
\* and writes nothing to the transport.
C16_PassThrough ==
    [][/\ ev'.op \in {"KBD_KEYCODE", "KBD_POST_KEYSYM", "KBD_KEYSYM"}
       /\ \/ ~ev'.down
          \/ console_show # 0 /\ ~(ev'.op = "KBD_KEYCODE" /\ ev'.value = BRAILLE_KEY)
       =>
       /\ ret' = NOTIFY_OK
       /\ UNCHANGED <<console_show, vc_view_x, vc_view_y, lastvc_x, lastvc_y>>
       /\ UNCHANGED <<console_buf, console_cursor, console_newline, lastVC>>
       /\ out' = <<>>]_vars

\* the release of a pan key while Browsing, away from the origin, was passed on
C16_Witness ==
    /\ ev.op = "KBD_KEYCODE" /\ ~ev.down /\ ev.value = KEY_UP
    /\ console_show = 0 /\ vc_view_y > 0
    /\ ret = NOTIFY_OK /\ out = <<>>

(* ========================= entering Browsing =========================== *)
\* C17: the trigger key pressed while Following switches to Browsing, returns
\* NOTIFY_STOP and sets the viewport to (cx - cx mod WIDTH, cy) and the last cursor
\* position to (cx, cy) for the cursor (cx, cy) of the console; so vc_view_x is a
\* multiple of WIDTH and the window holds the cursor.  KEY_HOME pressed while
\* Browsing sets the same viewport.
C17_FollowCursor ==
    [][/\ ev'.op = "KBD_KEYCODE" /\ ev'.down
       /\ \/ console_show # 0 /\ ev'.value = BRAILLE_KEY
          \/ console_show = 0 /\ ev'.value = KEY_HOME
       =>
       /\ console_show' = 0
       /\ ret' = NOTIFY_STOP
       /\ vc_view_x' = ev'.x - (ev'.x % WIDTH) /\ vc_view_y' = ev'.y
       /\ lastvc_x' = ev'.x /\ lastvc_y' = ev'.y
       /\ vc_view_x' % WIDTH = 0
       /\ vc_view_x' <= ev'.x /\ ev'.x < vc_view_x' + WIDTH]_vars

\* Browsing was entered with the cursor in the last column of the last row of a grid
\* wider than the display
C17_Witness ==
    /\ ev.op = "KBD_KEYCODE" /\ ev.down /\ ev.value = BRAILLE_KEY
    /\ console_show = 0
    /\ ev.x = vc_cols - 1 /\ ev.y = vc_rows - 1
    /\ vc_cols > WIDTH /\ vc_rows > 1
    /\ vc_view_x > 0 /\ lastvc_x = ev.x

(* ================== invariants of the line buffer ====================== *)
\* C18: after every sequence of VT_WRITE and VT_UPDATE notifications, in either
\* mode, console_cursor is within 0..WIDTH, console_buf has exactly the cells
\* 0..WIDTH-1 and every cell at an index from console_cursor on is blank (0 or a
\* space); the cell a notification stores to or erases is the one before the
\* cursor it leaves or the one at it, inside the line.
C18_LineInvariant ==
    /\ console_cursor \in 0..WIDTH
    /\ DOMAIN console_buf = 1..WIDTH
    /\ \A i \in 1..WIDTH : i > console_cursor => console_buf[i] \in {0, 32}
    /\ ev.op = "VT_WRITE" /\ ev.vc = fg_console /\ Stored(ev.c) # 0 =>
          /\ console_cursor \in 1..WIDTH
          /\ console_buf[console_cursor] = Stored(ev.c)
    /\ ev.op = "VT_WRITE" /\ ev.vc = fg_console /\ ev.c \in {8, 127} =>
          console_cursor \in 0..WIDTH - 1

\* a backspace on a full line, while Browsing, has blanked the last cell
C18_Witness ==
    /\ ev.op = "VT_WRITE" /\ ev.c = 8
    /\ console_show = 0
    /\ console_cursor = WIDTH - 1
    /\ console_buf[WIDTH] = 32 /\ console_buf[1] = 65

(* =================== the cache and the line shown ====================== *)
\* C19: whenever a console is bound and the mode is Following, after every
\* notification (key, VT_WRITE, VT_UPDATE) last_write_buf equals console_buf: the
\* frame written last, or the blank cache the driver starts with, is that of the
\* current line; also after a return from Browsing.
C19_CacheIsLine ==
    braille_co # NULL /\ console_show # 0 => last_write_buf = console_buf

\* Following was resumed after the line had changed while Browsing, and the line
\* was written
C19_Witness ==
    /\ ev.op = "KBD_KEYCODE" /\ ev.down /\ ev.value = KEY_INSERT
    /\ braille_co # NULL /\ console_show = 1
    /\ out = <<Frame(console_buf)>>
    /\ last_write_buf = console_buf /\ console_buf # Blank

(* ========================= the shape of a frame ======================== *)
\* the bytes of a frame strictly between its first and its last
Inner(frame) == SubSeq(frame, 2, Len(frame) - 1)

\* C20: every frame written to the transport starts with STX and '>' and ends with
\* ETX; between its first and last byte no byte has a value in 2..5, and SOH occurs
\* only as an escape prefix, followed at once by a byte with the 0x40 bit set; its
\* length is between WIDTH + 4 and 2 * WIDTH + 5, the size of the array data.
C20_Framing ==
    \A k \in 1..Len(out) :
        LET frame == out[k]
            inner == Inner(frame)
        IN  /\ Len(frame) >= WIDTH + 4 /\ Len(frame) <= 2 * WIDTH + 5
            /\ frame[1] = 2 /\ frame[2] = 62 /\ frame[Len(frame)] = 3
            /\ \A i \in 1..Len(inner) :
                  /\ inner[i] \in 0..255
                  /\ inner[i] \notin 2..5
                  /\ inner[i] = 1 =>
                        /\ i < Len(inner)
                        /\ (inner[i + 1] \div 64) % 2 = 1

\* a frame in which every character is escaped, and one byte short of the longest
\* frame the array can hold
C20_Witness ==
    /\ Called /\ Len(out) = 1
    /\ Len(out[1]) = 2 * WIDTH + 4
    /\ \A i \in 1..WIDTH : ev.buf[i] \in 1..5

====
